---- MODULE Spec2Model ----
(***************************************************************************)
(* The soupa! macro (src/lib.rs) as a state machine.  Every macro_rules    *)
(* arm is one action; the state is the argument list of the recursive      *)
(* soupa! call: @temps, @stack, @init and @body.  A token tree (tt) is a   *)
(* record: a single token, or a delimited group with its children.         *)
(***************************************************************************)
EXTENDS Integers, Sequences, FiniteSets, TLC

\* outer is the output of the enclosing soupa! invocation when the running
\* invocation was found in that output, and <<>> when the user wrote it.
VARIABLES outer, input, pc, temps, stack, init, body, out

vars == <<outer, input, pc, temps, stack, init, body, out>>

(***************************************************************************)
(* Bounds of the checked inputs.                                           *)
(***************************************************************************)
\* Number of building units (token, group, super block) of a generated input.
MaxUnits == 3
\* The long inputs hold up to PoolSize + MaxOver super blocks.
MaxOver == 1
\* Number of building units inside a nested soupa! invocation.
MaxNested == 2

(***************************************************************************)
(* Token trees.                                                            *)
(***************************************************************************)
Tok(v) == [kind |-> "tok", v |-> v, c |-> <<>>]

Grp(d, c) == [kind |-> d, v |-> "", c |-> c]

Delims == {"{}", "()", "[]"}

IsGroup(t) == t.kind \in Delims

SuperTok == Tok("super")

\* `super { .. }` at the front of a token sequence (pattern of lib.rs:136).
StartsWithSuperBlock(s) ==
    /\ Len(s) >= 2
    /\ s[1] = SuperTok
    /\ s[2].kind = "{}"

(***************************************************************************)
(* The pool of temporary names written out in the entry rule.              *)
(***************************************************************************)
Alphabet ==
    << "a", "b", "c", "d", "e", "f", "g", "h", "i", "j", "k", "l", "m",
       "n", "o", "p", "q", "r", "s", "t", "u", "v", "w", "x", "y", "z" >>

\* Rows of the pool: one row a..z, then the rows aa..az up to ia..iz.
PoolRows == 10

PoolSize == PoolRows * Len(Alphabet)

PoolName(i) ==
    IF i <= Len(Alphabet)
    THEN "__soupa_temp__" \o Alphabet[i]
    ELSE "__soupa_temp__" \o Alphabet[((i - 1) \div Len(Alphabet))]
                          \o Alphabet[((i - 1) % Len(Alphabet)) + 1]

\* The pool without its last name.
InitialTempsShort == [i \in 1..(PoolSize - 1) |-> Tok(PoolName(i))]

InitialTemps == [i \in 1..PoolSize |-> Tok(PoolName(i))]

(***************************************************************************)
(* Inputs.                                                                 *)
(***************************************************************************)
XTok == Tok("x")

\* Contents of the generated super blocks.
MarkerContents ==
    { <<>>, <<XTok>>, <<SuperTok, Grp("{}", <<>>)>>,
      <<Grp("()", <<SuperTok, Grp("{}", <<XTok>>)>>)>> }

\* One-unit pieces: a token, or a whole super block.
UnitPieces ==
    { <<XTok>>, <<SuperTok>> } \cup
    { <<SuperTok, Grp("{}", c)>> : c \in MarkerContents }

\* Forest[n]: the token sequences built from at most n units.
Forest[n \in 0..(MaxUnits + 1)] ==
    IF n = 0 THEN { <<>> }
    ELSE { <<>> }
         \cup { p \o r : p \in UnitPieces, r \in Forest[n - 1] }
         \cup UNION { { <<Grp(d, c)>> \o r :
                          d \in Delims, c \in Forest[i], r \in Forest[n - 1 - i] }
                      : i \in 0..(n - 1) }

\* n super blocks with empty contents, one after the other.
SuperBlocks(n) ==
    [i \in 1..(2 * n) |-> IF i % 2 = 1 THEN SuperTok ELSE Grp("{}", <<>>)]

\* Inputs with about as many super blocks as the pool has names.
LongInputs ==
    { SuperBlocks(n) \o tail :
        n \in (PoolSize - 1)..(PoolSize + MaxOver),
        tail \in { <<>>, <<SuperTok, Grp("{}", <<XTok>>)>> } }

Inputs == Forest[MaxUnits] \cup LongInputs

(***************************************************************************)
(* The machine.                                                            *)
(***************************************************************************)
Frame(p, b, r) == [paren |-> p, body |-> b, rest |-> r]

\* `super` followed by a group of any kind taken for a super block.
MatchesSuperAnyGroup(tmps, rest) ==
    /\ tmps # <<>>
    /\ Len(rest) >= 2
    /\ rest[1] = SuperTok
    /\ IsGroup(rest[2])

\* lib.rs:130-138: a name is left in @temps and @rest starts with super { .. }.
MatchesSuperBlock(tmps, rest) ==
    /\ tmps # <<>>
    /\ StartsWithSuperBlock(rest)

\* The statement written twice.
InitStatementTwice(next_ident, next) ==
    << Tok("let"), next_ident, Tok("="), Grp("{}", next), Tok(";"),
       Tok("let"), next_ident, Tok("="), Grp("{}", next), Tok(";") >>

\* lib.rs:162: let $next_ident = { $($next)* };
InitStatement(next_ident, next) ==
    << Tok("let"), next_ident, Tok("="), Grp("{}", next), Tok(";") >>

\* The new statement put in front of the ones already there.
AppendInitFront(old_init, stmt) == stmt \o old_init

\* lib.rs:160-163: the new statement goes after the ones already there.
AppendInit(old_init, stmt) == old_init \o stmt

\* The name just used is left in @temps.
RestTempsKeep(tmps) == tmps

\* lib.rs:148: the names after $next_ident stay in @temps.
RestTemps(tmps) == Tail(tmps)

\* The contents of the super block left in @rest, to be scanned as well.
RestWithContents(rest) == rest[2].c \o SubSeq(rest, 3, Len(rest))

\* lib.rs:156: what follows the super block stays in @rest.
RestAfterSuperBlock(rest) == SubSeq(rest, 3, Len(rest))

\* The new item put in front of the frame's body.
PushBodyFront(top_body, t) == <<t>> \o top_body

\* lib.rs:158,198,304,341: @body { $($top_body)* <the new item> }
PushBody(top_body, t) == Append(top_body, t)

\* The finished body always wrapped in braces.
RewrapBrace(d, next) == Grp("{}", next)

\* lib.rs:337, 374, 411: the finished body gets the delimiter of its frame.
Rewrap(d, next) == Grp(d, next)

\* The unwrapped body emitted as one {} group, like a wrapped one.
SpliceWrapped(old_body, next) == Append(old_body, Grp("{}", next))

\* lib.rs:512-515: the unwrapped body is spliced in without a delimiter.
Splice(old_body, next) == old_body \o next

\* The statements emitted without the block around them.
OutputNoBlock(the_init, the_body) == the_init \o the_body

\* The body emitted before the init statements.
OutputBodyFirst(the_init, the_body) == << Grp("{}", the_body \o the_init) >>

\* lib.rs:123-126: one block with the init statements, then the body.
Output(the_init, the_body) == << Grp("{}", the_init \o the_body) >>

(***************************************************************************)
(* The state record as the rules write and read it: the 19 token trees     *)
(*   @temps { .. }, @stack: { .. }, @init: { .. }, @body: { .. },          *)
(***************************************************************************)
AtTok == Tok("@")

CommaTok == Tok(",")

ColonTok == Tok(":")

Puncts == {"@", ",", ":", "=", ";", "!"}

\* $x:ident
IsIdent(t) == t.kind = "tok" /\ t.v \notin Puncts

\* @paren: None, @paren: {}, @paren: (), @paren: []
ParenTT(p) == IF p = "None" THEN Tok("None") ELSE Grp(p, <<>>)

IsParenTT(t) == t = Tok("None") \/ (IsGroup(t) /\ t.c = <<>>)

ParenOf(t) == IF t = Tok("None") THEN "None" ELSE t.kind

\* @name: { contents },
Field(name, contents) ==
    << AtTok, Tok(name), ColonTok, Grp("{}", contents), CommaTok >>

IsField(s, at, name) ==
    /\ s[at] = AtTok
    /\ s[at + 1] = Tok(name)
    /\ s[at + 2] = ColonTok
    /\ s[at + 3].kind = "{}"
    /\ s[at + 4] = CommaTok

\* { @paren: p, @body: { .. }, @rest: { .. }, }
EncodeFrame(f) ==
    Grp("{}", << AtTok, Tok("paren"), ColonTok, ParenTT(f.paren), CommaTok >>
              \o Field("body", f.body) \o Field("rest", f.rest))

FrameLen == 15

IsFrameRecord(t) ==
    /\ t.kind = "{}"
    /\ Len(t.c) = FrameLen
    /\ t.c[1] = AtTok
    /\ t.c[2] = Tok("paren")
    /\ t.c[3] = ColonTok
    /\ IsParenTT(t.c[4])
    /\ t.c[5] = CommaTok
    /\ IsField(t.c, 6, "body")
    /\ IsField(t.c, 11, "rest")

DecodeFrame(t) == Frame(ParenOf(t.c[4]), t.c[9].c, t.c[14].c)

Encode(tmps, st, the_init, the_body) ==
    << AtTok, Tok("temps"), Grp("{}", tmps), CommaTok >>
    \o Field("stack", [i \in 1..Len(st) |-> EncodeFrame(st[i])])
    \o Field("init", the_init)
    \o Field("body", the_body)

RecordLen == 19

IsStateRecord(s) ==
    /\ Len(s) = RecordLen
    /\ s[1] = AtTok
    /\ s[2] = Tok("temps")
    /\ s[3].kind = "{}"
    /\ \A i \in 1..Len(s[3].c) : IsIdent(s[3].c[i])
    /\ s[4] = CommaTok
    /\ IsField(s, 5, "stack")
    /\ \A i \in 1..Len(s[8].c) : IsFrameRecord(s[8].c[i])
    /\ IsField(s, 10, "init")
    /\ IsField(s, 15, "body")

DecodeTemps(s) == s[3].c

DecodeStack(s) == [i \in 1..Len(s[8].c) |-> DecodeFrame(s[8].c[i])]

DecodeInit(s) == s[13].c

DecodeBody(s) == s[18].c

\* Some rule before the entry rule matches the state with the stack st:
\* lib.rs:115-127 the empty stack; lib.rs:129-308 a top frame with a token
\* tree left in @rest; lib.rs:310-420 a finished top frame with a bracket
\* kind over another frame; lib.rs:422-517 one finished frame.
RuleMatches(st) ==
    \/ st = <<>>
    \/ /\ st # <<>>
       /\ \/ st[1].rest # <<>>
          \/ Len(st) >= 2 /\ st[1].paren \in Delims
          \/ Len(st) = 1

\* The tokens of an invocation are a state record that a rule before the
\* entry rule matches.
MatchesInternalRule(s) == IsStateRecord(s) /\ RuleMatches(DecodeStack(s))

Init ==
    /\ outer = <<>>
    /\ input \in Inputs
    /\ pc = "call"
    /\ temps = <<>>
    /\ stack = <<>>
    /\ init = <<>>
    /\ body = <<>>
    /\ out = <<>>

\* An invocation found in the output of another one goes on with the names
\* that one has left.
EntrySharedPool ==
    /\ pc = "call"
    /\ ~MatchesInternalRule(input)
    /\ pc' = "run"
    /\ temps' = IF outer = <<>> THEN InitialTemps ELSE temps
    /\ stack' = << Frame("None", <<>>, input) >>
    /\ init' = <<>>
    /\ body' = <<>>
    /\ UNCHANGED <<outer, input, out>>

\* lib.rs:519-547: no other rule matches, the input is user supplied.
Entry ==
    /\ pc = "call"
    /\ ~MatchesInternalRule(input)
    /\ pc' = "run"
    /\ temps' = InitialTemps
    /\ stack' = << Frame("None", <<>>, input) >>
    /\ init' = <<>>
    /\ body' = <<>>
    /\ UNCHANGED <<outer, input, out>>

\* lib.rs:115-127: the stack is empty, output the init and body statements.
EmptyStack ==
    /\ pc = "run"
    /\ stack = <<>>
    /\ out' = Output(init, body)
    /\ pc' = "done"
    /\ UNCHANGED <<outer, input, temps, stack, init, body>>

\* A name is taken from the pool and placed in the body, no init statement.
SuperBlockNoInit ==
    /\ pc = "run"
    /\ stack # <<>>
    /\ MatchesSuperBlock(temps, stack[1].rest)
    /\ LET top == stack[1]
           next_ident == Head(temps)
           top_rest == RestAfterSuperBlock(top.rest)
       IN /\ temps' = RestTemps(temps)
          /\ stack' = << Frame(top.paren, PushBody(top.body, next_ident), top_rest) >>
                      \o Tail(stack)
    /\ UNCHANGED <<outer, input, pc, init, body, out>>

\* lib.rs:129-166: process a super block into an init statement.
SuperBlock ==
    /\ pc = "run"
    /\ stack # <<>>
    /\ MatchesSuperBlock(temps, stack[1].rest)
    /\ LET top == stack[1]
           next_ident == Head(temps)
           next == top.rest[2].c
           top_rest == RestAfterSuperBlock(top.rest)
       IN /\ temps' = RestTemps(temps)
          /\ stack' = << Frame(top.paren, PushBody(top.body, next_ident), top_rest) >>
                      \o Tail(stack)
          /\ init' = AppendInit(init, InitStatement(next_ident, next))
    /\ UNCHANGED <<outer, input, pc, body, out>>

\* The group taken over as it is: its contents go to the body unscanned.
PeelVerbatim(d) ==
    /\ pc = "run"
    /\ stack # <<>>
    /\ ~MatchesSuperBlock(temps, stack[1].rest)
    /\ stack[1].rest # <<>>
    /\ Head(stack[1].rest).kind = d
    /\ LET top == stack[1]
           next == Head(top.rest).c
           top_rest == Tail(top.rest)
       IN stack' = << Frame(d, next, <<>>),
                      Frame(top.paren, top.body, top_rest) >> \o Tail(stack)
    /\ UNCHANGED <<outer, input, pc, temps, init, body, out>>

\* lib.rs:167-274: peel off a {} / () / [] tree and place it onto the stack.
\* The super block rule is tried first.
Peel(d) ==
    /\ pc = "run"
    /\ stack # <<>>
    /\ ~MatchesSuperBlock(temps, stack[1].rest)
    /\ stack[1].rest # <<>>
    /\ Head(stack[1].rest).kind = d
    /\ LET top == stack[1]
           next == Head(top.rest).c
           top_rest == Tail(top.rest)
       IN stack' = << Frame(d, <<>>, next),
                      Frame(top.paren, top.body, top_rest) >> \o Tail(stack)
    /\ UNCHANGED <<outer, input, pc, temps, init, body, out>>

\* lib.rs:167-202
PeelBrace == Peel("{}")

\* lib.rs:203-238
PeelParen == Peel("()")

\* lib.rs:239-274
PeelBracket == Peel("[]")

\* The token copied to the body and left in @rest as well.
MiscTokenKeep ==
    /\ pc = "run"
    /\ stack # <<>>
    /\ ~MatchesSuperBlock(temps, stack[1].rest)
    /\ stack[1].rest # <<>>
    /\ ~IsGroup(Head(stack[1].rest))
    /\ LET top == stack[1]
           next == Head(top.rest)
       IN stack' = << Frame(top.paren, PushBody(top.body, next), top.rest) >>
                   \o Tail(stack)
    /\ UNCHANGED <<outer, input, pc, temps, init, body, out>>

\* lib.rs:275-308: peel off a misc token and place it in the top scope output.
\* The super block rule and the three peel rules are tried first.
MiscToken ==
    /\ pc = "run"
    /\ stack # <<>>
    /\ ~MatchesSuperBlock(temps, stack[1].rest)
    /\ stack[1].rest # <<>>
    /\ ~IsGroup(Head(stack[1].rest))
    /\ LET top == stack[1]
           next == Head(top.rest)
           top_rest == Tail(top.rest)
       IN stack' = << Frame(top.paren, PushBody(top.body, next), top_rest) >>
                   \o Tail(stack)
    /\ UNCHANGED <<outer, input, pc, temps, init, body, out>>

\* The combine rules without the one for [].
CombineNoBracket(d) ==
    /\ d # "[]"
    /\ pc = "run"
    /\ Len(stack) >= 2
    /\ stack[1].paren = d
    /\ stack[1].rest = <<>>
    /\ LET next == stack[1].body
           top == stack[2]
       IN stack' = << Frame(top.paren, PushBody(top.body, Rewrap(d, next)), top.rest) >>
                   \o SubSeq(stack, 3, Len(stack))
    /\ UNCHANGED <<outer, input, pc, temps, init, body, out>>

\* lib.rs:310-420: the top item is done, combine it with the next item down.
Combine(d) ==
    /\ pc = "run"
    /\ Len(stack) >= 2
    /\ stack[1].paren = d
    /\ stack[1].rest = <<>>
    /\ LET next == stack[1].body
           top == stack[2]
       IN stack' = << Frame(top.paren, PushBody(top.body, Rewrap(d, next)), top.rest) >>
                   \o SubSeq(stack, 3, Len(stack))
    /\ UNCHANGED <<outer, input, pc, temps, init, body, out>>

\* lib.rs:310-346
CombineBrace == Combine("{}")

\* lib.rs:347-383
CombineParen == Combine("()")

\* lib.rs:384-420
CombineBracket == Combine("[]")

\* lib.rs:422-493: only a wrapped body is left, so output it.
\* The entry rule starts the only frame of a run with @paren: None and the
\* peel rules put their frames on top of it, so no run started by Entry
\* enables these three rules; they are steps of NextRaw, not of Next.
WrappedBody(d) ==
    /\ pc = "run"
    /\ Len(stack) = 1
    /\ stack[1].paren = d
    /\ stack[1].rest = <<>>
    /\ stack' = <<>>
    /\ body' = Append(body, Rewrap(d, stack[1].body))
    /\ UNCHANGED <<outer, input, pc, temps, init, out>>

\* The unwrapped body put out while the frame still has input left.
UnwrappedBodyEarly ==
    /\ pc = "run"
    /\ Len(stack) = 1
    /\ stack[1].paren = "None"
    /\ stack' = <<>>
    /\ body' = Splice(body, stack[1].body)
    /\ UNCHANGED <<outer, input, pc, temps, init, out>>

\* lib.rs:494-517: only an unwrapped body is left, so output it.
UnwrappedBody ==
    /\ pc = "run"
    /\ Len(stack) = 1
    /\ stack[1].paren = "None"
    /\ stack[1].rest = <<>>
    /\ stack' = <<>>
    /\ body' = Splice(body, stack[1].body)
    /\ UNCHANGED <<outer, input, pc, temps, init, out>>

Next ==
    \/ Entry
    \/ EmptyStack
    \/ SuperBlock
    \/ PeelBrace
    \/ PeelParen
    \/ PeelBracket
    \/ MiscToken
    \/ CombineBrace
    \/ CombineParen
    \/ CombineBracket
    \/ UnwrappedBody

Spec == Init /\ [][Next]_vars

(***************************************************************************)
(* Invocations whose tokens are a state record.  The rules are tried in    *)
(* the order they are written and the entry rule is the last one, so       *)
(* such an invocation is taken by the rule that matches the record.        *)
(***************************************************************************)
\* Number of frames in the records of the raw inputs.
MaxFrames == 2

RawTemps == { <<>>, << Tok("t"), Tok("u") >> }

RawParens == {"None"} \cup Delims

RawTopFrames ==
    { Frame(p, b, r) :
        p \in RawParens,
        b \in { <<XTok>> },
        r \in { <<>>, <<XTok>>, <<SuperTok, Grp("{}", <<XTok>>)>>,
                <<Grp("()", <<>>)>>, <<Grp("[]", <<XTok>>)>>, <<Grp("{}", <<>>)>> } }

RawLowFrames ==
    { Frame(p, <<>>, r) : p \in RawParens, r \in { <<>>, <<XTok>> } }

RawStacks[n \in 0..(MaxFrames + 1)] ==
    IF n = 0 THEN { <<>> }
    ELSE IF n = 1 THEN { <<>> } \cup { <<f>> : f \in RawTopFrames }
    ELSE RawStacks[n - 1]
         \cup { Append(st, f) : st \in RawStacks[n - 1] \ { <<>> }, f \in RawLowFrames }

RawRecords ==
    { Encode(t, st, i, b) :
        t \in RawTemps, st \in RawStacks[MaxFrames],
        i \in { <<>>, << Tok("y"), Tok(";") >> }, b \in { <<XTok>> } }

\* State records without the last comma: no rule but the entry rule matches.
RawNearMisses ==
    { SubSeq(Encode(t, <<f>>, <<>>, <<>>), 1, RecordLen - 1) :
        t \in RawTemps,
        f \in { Frame("None", <<>>, <<>>),
                Frame("None", <<>>, <<SuperTok, Grp("{}", <<XTok>>)>>) } }

RawInputs == RawRecords \cup RawNearMisses \cup Forest[1]

InitRaw ==
    /\ outer = <<>>
    /\ input \in RawInputs
    /\ pc = "call"
    /\ temps = <<>>
    /\ stack = <<>>
    /\ init = <<>>
    /\ body = <<>>
    /\ out = <<>>

\* lib.rs:115-517: the tokens of the invocation are a state record that one
\* of these rules matches; the run goes on from that state.
EntryInternal ==
    /\ pc = "call"
    /\ MatchesInternalRule(input)
    /\ pc' = "run"
    /\ temps' = DecodeTemps(input)
    /\ stack' = DecodeStack(input)
    /\ init' = DecodeInit(input)
    /\ body' = DecodeBody(input)
    /\ UNCHANGED <<outer, input, out>>

\* The record taken into a frame of kind {}.
ReenterBrace ==
    /\ pc = "run"
    /\ ~RuleMatches(stack)
    /\ temps' = InitialTemps
    /\ stack' = << Frame("{}", <<>>, Encode(temps, stack, init, body)) >>
    /\ init' = <<>>
    /\ body' = <<>>
    /\ UNCHANGED <<outer, input, pc, out>>

\* lib.rs:519-547: no other rule matches the state record, so the entry
\* rule takes the whole record for the tokens of the user.
Reenter ==
    /\ pc = "run"
    /\ ~RuleMatches(stack)
    /\ temps' = InitialTemps
    /\ stack' = << Frame("None", <<>>, Encode(temps, stack, init, body)) >>
    /\ init' = <<>>
    /\ body' = <<>>
    /\ UNCHANGED <<outer, input, pc, out>>

\* lib.rs:422-445
WrappedBodyBrace == WrappedBody("{}")

\* lib.rs:446-469
WrappedBodyParen == WrappedBody("()")

\* lib.rs:470-493
WrappedBodyBracket == WrappedBody("[]")

NextRaw ==
    \/ Next
    \/ EntryInternal
    \/ Reenter
    \/ WrappedBodyBrace
    \/ WrappedBodyParen
    \/ WrappedBodyBracket

SpecRaw == InitRaw /\ [][NextRaw]_vars

(***************************************************************************)
(* The direct recursive rewrite the macro is meant to compute.             *)
(***************************************************************************)
\* s[i] is `super` and s[i+1] is a {} group: a marked expression starts at i.
MarkerAt(s, i) ==
    /\ i < Len(s)
    /\ s[i] = SuperTok
    /\ s[i + 1].kind = "{}"

RefName(k) == Tok(PoolName(k))

\* Rewrite of s[lo..hi], where k is the index of the next free name:
\* b is the body, d the contents of the marked expressions in discovery order.
\* A sequence is cut in two between two items, never inside a marked expression.
RECURSIVE Rew(_, _, _, _)
Rew(s, lo, hi, k) ==
    IF lo > hi THEN [b |-> <<>>, d |-> <<>>]
    ELSE IF lo = hi THEN
        IF IsGroup(s[lo])
        THEN LET r == Rew(s[lo].c, 1, Len(s[lo].c), k)
             IN [b |-> << Grp(s[lo].kind, r.b) >>, d |-> r.d]
        ELSE [b |-> << s[lo] >>, d |-> <<>>]
    ELSE IF hi = lo + 1 /\ MarkerAt(s, lo) THEN
        [b |-> << RefName(k) >>, d |-> << s[hi].c >>]
    ELSE LET m0 == (lo + hi) \div 2
             m == IF MarkerAt(s, m0) THEN m0 - 1 ELSE m0
             left == Rew(s, lo, m, k)
             right == Rew(s, m + 1, hi, k + Len(left.d))
         IN [b |-> left.b \o right.b, d |-> left.d \o right.d]

RefRewrite(s) == Rew(s, 1, Len(s), 1)

\* The statements `let <name_j> = { <d[j]> };`, one after the other.
RefInit(d) ==
    [j \in 1..(5 * Len(d)) |->
        LET n == ((j - 1) \div 5) + 1
            r == (j - 1) % 5
        IN CASE r = 0 -> Tok("let")
             [] r = 1 -> RefName(n)
             [] r = 2 -> Tok("=")
             [] r = 3 -> Grp("{}", d[n])
             [] r = 4 -> Tok(";")]

\* No marked expression at any depth.
RECURSIVE NoMarker(_)
NoMarker(s) ==
    \A i \in 1..Len(s) :
        /\ ~MarkerAt(s, i)
        /\ IsGroup(s[i]) => NoMarker(s[i].c)

(***************************************************************************)
(* Positions in a token sequence.  A path <<i1, .., ik>> names item ik of  *)
(* the group at item i(k-1) of .. of the group at item i1.                 *)
(***************************************************************************)
\* The sequence in which the last index of a path is taken.
RECURSIVE SeqAt(_, _)
SeqAt(s, p) == IF p = <<>> THEN s ELSE SeqAt(s[p[1]].c, Tail(p))

Front(p) == SubSeq(p, 1, Len(p) - 1)

Last(p) == p[Len(p)]

ItemAt(s, p) == SeqAt(s, Front(p))[Last(p)]

\* Contents of the marked expression whose `super` is at path p.
ContentsAt(s, p) == SeqAt(s, Front(p))[Last(p) + 1].c

\* Paths of the `super` of every marked expression, at any depth.
RECURSIVE AllMarkerPaths(_)
AllMarkerPaths(s) ==
    UNION { (IF MarkerAt(s, i) THEN { <<i>> } ELSE {})
            \cup (IF IsGroup(s[i])
                  THEN { <<i>> \o p : p \in AllMarkerPaths(s[i].c) }
                  ELSE {})
            : i \in 1..Len(s) }

\* Paths of the marked expressions that are not inside another one.
RECURSIVE HoistPaths(_)
HoistPaths(s) ==
    UNION { IF MarkerAt(s, i) THEN { <<i>> }
            ELSE IF IsGroup(s[i]) /\ ~(i > 1 /\ MarkerAt(s, i - 1))
            THEN { <<i>> \o p : p \in HoistPaths(s[i].c) }
            ELSE {}
            : i \in 1..Len(s) }

\* Paths at which the token t occurs.
RECURSIVE TokPaths(_, _)
TokPaths(s, t) ==
    UNION { IF s[i] = t THEN { <<i>> }
            ELSE IF IsGroup(s[i])
            THEN { <<i>> \o p : p \in TokPaths(s[i].c, t) }
            ELSE {}
            : i \in 1..Len(s) }

PoolNames == { InitialTemps[i] : i \in 1..PoolSize }

\* Paths at which some name of the pool occurs.
RECURSIVE NamePaths(_)
NamePaths(s) ==
    UNION { IF s[i] \in PoolNames THEN { <<i>> }
            ELSE IF IsGroup(s[i])
            THEN { <<i>> \o p : p \in NamePaths(s[i].c) }
            ELSE {}
            : i \in 1..Len(s) }

\* p comes before q in the pre-order, left-to-right walk.
PreOrderBefore(p, q) ==
    \E k \in 1..Len(q) :
        /\ \A l \in 1..(k - 1) : l <= Len(p) /\ p[l] = q[l]
        /\ \/ k = Len(p) + 1
           \/ k <= Len(p) /\ p[k] < q[k]

\* Place of p among the paths ps in that walk, counted from 1.
Rank(p, ps) == 1 + Cardinality({ q \in ps : PreOrderBefore(q, p) })

Min(a, b) == IF a <= b THEN a ELSE b

\* Number of marked expressions that get hoisted: the pool holds PoolSize names.
NumHoisted == Min(Cardinality(HoistPaths(input)), PoolSize)

Done == pc = "done"

(***************************************************************************)
(* C1: for every input with no more marked expressions than pool names,    *)
(* the output of the stack machine is the output of the direct recursive   *)
(* rewrite: one block holding the init statements in discovery order and   *)
(* then the input with every marked expression replaced by its name.       *)
(***************************************************************************)
MachineEqualsReference ==
    Done =>
        LET r == RefRewrite(input)
        IN Len(r.d) <= PoolSize =>
              out = << Grp("{}", RefInit(r.d) \o r.b) >>

\* A finished run with two hoisted expressions, one of them inside a group.
MachineEqualsReferenceWitness ==
    /\ Done
    /\ Len(RefRewrite(input).d) = 2
    /\ \E i \in 1..Len(input) :
          /\ IsGroup(input[i])
          /\ ~(i > 1 /\ MarkerAt(input, i - 1))
          /\ Len(RefRewrite(input[i].c).d) = 1
    /\ out = << Grp("{}", RefInit(RefRewrite(input).d) \o RefRewrite(input).b) >>

(***************************************************************************)
(* C2: for every input without a marked expression at any depth, the run   *)
(* ends with an empty init list and a body identical to the input.         *)
(***************************************************************************)
IdentityOnMarkerless ==
    (Done /\ NoMarker(input)) =>
        /\ init = <<>>
        /\ body = input
        /\ out = << Grp("{}", input) >>

\* A finished run on a markerless input with a lone `super` and a non-empty
\* group that is not a {} group.
IdentityOnMarkerlessWitness ==
    /\ Done
    /\ NoMarker(input)
    /\ body = input
    /\ \E i, k \in 1..Len(input) :
          /\ input[i] = SuperTok
          /\ input[k].kind \in {"()", "[]"}
          /\ input[k].c # <<>>

DefinitionBeforeUse ==
    Done =>
        /\ Len(out) = 1
        /\ out[1].kind = "{}"
        /\ LET s == out[1].c
               n == Len(init)
           IN /\ Len(s) = n + Len(body)
              /\ SubSeq(s, 1, n) = init
              /\ SubSeq(s, n + 1, Len(s)) = body
              /\ \A j \in 1..(n \div 5) :
                    /\ s[5 * j - 4] = Tok("let")
                    /\ s[5 * j - 3] \in PoolNames
                    /\ \A p \in TokPaths(s, s[5 * j - 3]) :
                          p = << 5 * j - 3 >> \/ p[1] > n
              /\ \A p \in NamePaths(body) :
                    \E j \in 1..(n \div 5) : ItemAt(body, p) = s[5 * j - 3]

\* A finished run with two init statements, a reference inside a group and
\* body tokens before the first reference.
DefinitionBeforeUseWitness ==
    /\ Done
    /\ Len(init) = 10
    /\ \E p \in NamePaths(body) : Len(p) = 2
    /\ body # <<>> /\ body[1] \notin PoolNames
    /\ out[1].c[2] = RefName(1)

(***************************************************************************)
(* C5: the init statements are in discovery order, the pre-order,          *)
(* left-to-right order of the marked expressions, and the i-th discovered  *)
(* marked expression is bound to the i-th name of the pool, the first one  *)
(* to __soupa_temp__a.                                                     *)
(***************************************************************************)
HoistingOrder ==
    Done =>
        LET hp == HoistPaths(input)
        IN /\ Len(init) <= 5 * Cardinality(hp)
           /\ hp # {} => (Len(init) >= 5 /\ init[2] = Tok("__soupa_temp__a"))
           /\ \A p \in hp :
                 LET i == Rank(p, hp)
                 IN i <= PoolSize =>
                       /\ Len(init) >= 5 * i
                       /\ SubSeq(init, 5 * i - 4, 5 * i)
                            = << Tok("let"), InitialTemps[i], Tok("="),
                                 Grp("{}", ContentsAt(input, p)), Tok(";") >>

\* A finished run where the marked expression discovered first lies deeper
\* than the one discovered second, and the two have different contents.
HoistingOrderWitness ==
    /\ Done
    /\ \E p, q \in HoistPaths(input) :
          /\ PreOrderBefore(p, q)
          /\ Len(p) > Len(q)
          /\ ContentsAt(input, p) # ContentsAt(input, q)
          /\ init[4] = Grp("{}", ContentsAt(input, p))
          /\ init[9] = Grp("{}", ContentsAt(input, q))

(***************************************************************************)
(* Erasure of the hoisted places, to compare the structure around them.    *)
(***************************************************************************)
Hole == [kind |-> "hole", v |-> "", c |-> <<>>]

NoItem == [kind |-> "none", v |-> "", c |-> <<>>]

\* The marked expression at path p is one of the first PoolSize discovered.
IsHoisted(p, hp) == p \in hp /\ Rank(p, hp) <= PoolSize

\* The input with every hoisted marked expression replaced by a hole.
\* pre is the path of the group whose contents s is, hp the discovered paths.
RECURSIVE EraseIn(_, _, _)
EraseIn(s, pre, hp) ==
    LET m == [i \in 1..Len(s) |->
                IF MarkerAt(s, i) /\ IsHoisted(pre \o <<i>>, hp) THEN Hole
                ELSE IF i > 1 /\ MarkerAt(s, i - 1)
                THEN (IF IsHoisted(pre \o <<i - 1>>, hp) THEN NoItem ELSE s[i])
                ELSE IF IsGroup(s[i])
                THEN Grp(s[i].kind, EraseIn(s[i].c, pre \o <<i>>, hp))
                ELSE s[i]]
    IN SelectSeq(m, LAMBDA t : t # NoItem)

\* The body with every name of the pool replaced by a hole.
RECURSIVE EraseOut(_)
EraseOut(s) ==
    [i \in 1..Len(s) |->
        IF s[i] \in PoolNames THEN Hole
        ELSE IF IsGroup(s[i]) THEN Grp(s[i].kind, EraseOut(s[i].c))
        ELSE s[i]]

\* The item at path p, or NoItem when the path leads nowhere.
RECURSIVE SafeItemAt(_, _)
SafeItemAt(s, p) ==
    IF p = <<>> \/ p[1] < 1 \/ p[1] > Len(s) THEN NoItem
    ELSE IF Len(p) = 1 THEN s[p[1]]
    ELSE IF IsGroup(s[p[1]]) THEN SafeItemAt(s[p[1]].c, Tail(p))
    ELSE NoItem

\* Where the hoisted marked expression at path p of the input lies in the
\* body: at every level each marked expression to its left, discovered and
\* hoisted before it, takes one place instead of two.
MapPath(p) ==
    [l \in 1..Len(p) |->
        LET s == SeqAt(input, SubSeq(p, 1, l - 1))
        IN p[l] - Cardinality({ i \in 1..(p[l] - 1) : MarkerAt(s, i) })]

(***************************************************************************)
(* C6: every group of the input that is not a marked expression and not    *)
(* inside one is in the output at the same place with the same kind of     *)
(* bracket and its tokens and child groups in the same order, and the top  *)
(* level sequence gets no delimiter of its own: with the hoisted places    *)
(* erased, body and input are the same token sequence.                     *)
(***************************************************************************)
StructurePreserved ==
    Done => EraseOut(body) = EraseIn(input, <<>>, HoistPaths(input))

\* A finished run with a hoisted marked expression inside two nested groups
\* of different kinds, neither of them {}.
StructurePreservedWitness ==
    /\ Done
    /\ \E p \in HoistPaths(input) :
          /\ Len(p) = 3
          /\ input[p[1]].kind \in {"()", "[]"}
          /\ input[p[1]].c[p[2]].kind \in {"()", "[]"} \ {input[p[1]].kind}
          /\ SafeItemAt(body, <<p[1], p[2]>>).kind = input[p[1]].c[p[2]].kind

(***************************************************************************)
(* C7: a marked expression at any depth inside ordinary groups is hoisted  *)
(* as at depth 0: it gets the init statement `let <name> = { <contents> };`*)
(* and its name stands where the marked expression stood inside its        *)
(* innermost enclosing group.                                              *)
(***************************************************************************)
DepthIndependence ==
    Done =>
        LET hp == HoistPaths(input)
        IN \A p \in hp :
              IsHoisted(p, hp) =>
                 LET i == Rank(p, hp)
                     q == MapPath(p)
                 IN /\ Len(init) >= 5 * i
                    /\ init[5 * i - 1] = Grp("{}", ContentsAt(input, p))
                    /\ SafeItemAt(body, q) = init[5 * i - 3]
                    /\ SafeItemAt(body, q) \in PoolNames
                    /\ \A l \in 1..(Len(p) - 1) :
                          SafeItemAt(body, SubSeq(q, 1, l)).kind
                            = ItemAt(input, SubSeq(p, 1, l)).kind

\* A finished run with a marked expression hoisted from depth 2.
DepthIndependenceWitness ==
    /\ Done
    /\ \E p \in HoistPaths(input) :
          /\ Len(p) = 3
          /\ SafeItemAt(body, p) = RefName(1)
          /\ init[4] = Grp("{}", ContentsAt(input, p))

(***************************************************************************)
(* C8: a super block inside the contents of a marked expression is not     *)
(* hoisted: it takes no name from the pool, gets no init statement, and    *)
(* stays verbatim inside the init statement of the outer one.              *)
(***************************************************************************)
MarkedContentsOpaque ==
    Done =>
        LET hp == HoistPaths(input)
        IN \A p \in hp :
              (IsHoisted(p, hp) /\ AllMarkerPaths(ContentsAt(input, p)) # {}) =>
                 /\ Len(init) = 5 * NumHoisted
                 /\ Len(temps) = PoolSize - NumHoisted
                 /\ init[5 * Rank(p, hp) - 1] = Grp("{}", ContentsAt(input, p))
                 /\ \A j \in 1..NumHoisted : NamePaths(init[5 * j - 1].c) = {}

\* A finished run with one init statement whose contents hold a super block.
MarkedContentsOpaqueWitness ==
    /\ Done
    /\ Len(init) = 5
    /\ Len(temps) = PoolSize - 1
    /\ AllMarkerPaths(init[4].c) # {}
    /\ \E p \in HoistPaths(input) : init[4].c = ContentsAt(input, p)

(***************************************************************************)
(* C9: a `super` that is not immediately followed by a {} group is copied  *)
(* to the body of its frame as an ordinary token: the step takes no name,  *)
(* adds no init statement, enters no other mode, and leaves what follows   *)
(* in the remaining input of the frame.                                    *)
(***************************************************************************)
MalformedMarkerIsOrdinary ==
    [][ ( /\ pc = "run"
          /\ stack # <<>>
          /\ stack[1].rest # <<>>
          /\ Head(stack[1].rest) = SuperTok
          /\ ~MarkerAt(stack[1].rest, 1) )
        => ( /\ pc' = "run"
             /\ temps' = temps
             /\ init' = init
             /\ body' = body
             /\ stack' = << [paren |-> stack[1].paren,
                             body |-> Append(stack[1].body, SuperTok),
                             rest |-> Tail(stack[1].rest)] >> \o Tail(stack) )
      ]_vars

\* A lone `super` has been copied to the body and a () or [] group follows.
MalformedMarkerIsOrdinaryWitness ==
    /\ pc = "run"
    /\ stack # <<>>
    /\ stack[1].body # <<>>
    /\ Last(stack[1].body) = SuperTok
    /\ stack[1].rest # <<>>
    /\ Head(stack[1].rest).kind \in {"()", "[]"}
    /\ Len(temps) = PoolSize
    /\ init = <<>>

(***************************************************************************)
(* C10: when the pool is empty at a marked expression the expansion stops  *)
(* in an error; it never completes with an output whose body still holds   *)
(* a marked expression.                                                    *)
(***************************************************************************)
PoolExhaustionFailsLoudly ==
    Done => HoistPaths(body) = {}

(***************************************************************************)
(* C11: in every state of a run, whatever the input, no name of the pool   *)
(* is bound by two init statements, the names still in @temps are not      *)
(* bound by any, and the names of the initial pool are pairwise distinct.  *)
(***************************************************************************)
BoundName(j) == init[5 * j - 3]

BoundNames == { BoundName(j) : j \in 1..(Len(init) \div 5) }

FreshNamesNoRepetition ==
    /\ Cardinality(PoolNames) = PoolSize
    /\ Cardinality(BoundNames) = Len(init) \div 5
    /\ BoundNames \cap { temps[j] : j \in 1..Len(temps) } = {}
    /\ BoundNames \subseteq PoolNames

\* Every name of the pool is bound and one more super block is waiting.
FreshNamesNoRepetitionWitness ==
    /\ pc = "run"
    /\ Len(init) = 5 * PoolSize
    /\ temps = <<>>
    /\ stack # <<>>
    /\ StartsWithSuperBlock(stack[1].rest)

(***************************************************************************)
(* soupa! used inside soupa! (tests/expand/d.rs).  The arguments of a      *)
(* macro are not expanded before the macro: the inner invocation is plain  *)
(* tokens for the outer one, and is expanded where it stands in the        *)
(* output of the outer one.                                                *)
(***************************************************************************)
SoupaTok == Tok("soupa")

BangTok == Tok("!")

\* `soupa ! <group>` starts at item i of s.
InvocationAt(s, i) ==
    /\ i + 2 <= Len(s)
    /\ s[i] = SoupaTok
    /\ s[i + 1] = BangTok
    /\ IsGroup(s[i + 2])

\* Paths of the `soupa` of every invocation, at any depth.
RECURSIVE InvocationPaths(_)
InvocationPaths(s) ==
    UNION { (IF InvocationAt(s, i) THEN { <<i>> } ELSE {})
            \cup (IF IsGroup(s[i])
                  THEN { <<i>> \o p : p \in InvocationPaths(s[i].c) }
                  ELSE {})
            : i \in 1..Len(s) }

\* Arguments of the invocation whose `soupa` is at path p.
ArgumentsAt(s, p) == SeqAt(s, Front(p))[Last(p) + 2].c

\* An invocation with at most MaxNested units of arguments, by itself or as
\* the contents of a super block, after nothing or after one super block.
NestedInputs ==
    { pre \o mid :
        pre \in { <<>>, <<SuperTok, Grp("{}", <<XTok>>)>> },
        mid \in UNION { { <<SoupaTok, BangTok, Grp(d, c)>>,
                          <<SuperTok, Grp("{}", <<SoupaTok, BangTok, Grp(d, c)>>)>> }
                        : d \in {"()", "{}"}, c \in Forest[MaxNested] } }

InitNested ==
    /\ outer = <<>>
    /\ input \in NestedInputs
    /\ pc = "call"
    /\ temps = <<>>
    /\ stack = <<>>
    /\ init = <<>>
    /\ body = <<>>
    /\ out = <<>>

\* tests/expand/d.rs:11-17: an invocation left in the output of the outer
\* invocation is expanded in its turn, with its arguments as input.
NestedCall ==
    /\ pc = "done"
    /\ outer = <<>>
    /\ \E p \in InvocationPaths(out) :
          /\ outer' = out
          /\ input' = ArgumentsAt(out, p)
    /\ pc' = "call"
    /\ out' = <<>>
    /\ UNCHANGED <<temps, stack, init, body>>

NextNested ==
    \/ Next
    \/ NestedCall

SpecNested == InitNested /\ [][NextNested]_vars

\* The running invocation was found in the output of another one.
IsNested == outer # <<>>

(***************************************************************************)
(* C12: every super block written inside an inner soupa! invocation is     *)
(* lifted by the outer invocation, so the inner invocation gets an input   *)
(* without marked expression and is a no-op: it takes no name, makes no    *)
(* init statement and emits its body unchanged.                            *)
(***************************************************************************)
NestedInvocationIsNoOp ==
    IsNested =>
        /\ NoMarker(input)
        /\ pc \in {"run", "done"} => (init = <<>> /\ Len(temps) = PoolSize)
        /\ Done => body = input

(***************************************************************************)
(* C13: in every state of an expansion exactly one rule applies, the names *)
(* left in the pool are given by the number of init statements of the      *)
(* running invocation alone (it starts at __soupa_temp__a, whatever an     *)
(* enclosing invocation has used), and the output is a function of the     *)
(* input of the invocation, names included.                                *)
(***************************************************************************)
NumRulesEnabled ==
      (IF ENABLED Entry THEN 1 ELSE 0)
    + (IF ENABLED EmptyStack THEN 1 ELSE 0)
    + (IF ENABLED SuperBlock THEN 1 ELSE 0)
    + (IF ENABLED PeelBrace THEN 1 ELSE 0)
    + (IF ENABLED PeelParen THEN 1 ELSE 0)
    + (IF ENABLED PeelBracket THEN 1 ELSE 0)
    + (IF ENABLED MiscToken THEN 1 ELSE 0)
    + (IF ENABLED CombineBrace THEN 1 ELSE 0)
    + (IF ENABLED CombineParen THEN 1 ELSE 0)
    + (IF ENABLED CombineBracket THEN 1 ELSE 0)
    + (IF ENABLED WrappedBody("{}") THEN 1 ELSE 0)
    + (IF ENABLED WrappedBody("()") THEN 1 ELSE 0)
    + (IF ENABLED WrappedBody("[]") THEN 1 ELSE 0)
    + (IF ENABLED UnwrappedBody THEN 1 ELSE 0)

Deterministic ==
    /\ pc \in {"call", "run"} => NumRulesEnabled = 1
    /\ pc \in {"run", "done"} =>
          temps = SubSeq(InitialTemps, (Len(init) \div 5) + 1, PoolSize)
    /\ Done =>
          LET r == RefRewrite(input)
          IN out = << Grp("{}", RefInit(r.d) \o r.b) >>

\* An inner invocation has hoisted a super block under __soupa_temp__a after
\* the outer invocation had used that name too.
DeterministicWitness ==
    /\ IsNested
    /\ Done
    /\ Len(init) = 5
    /\ init[2] = Tok("__soupa_temp__a")
    /\ TokPaths(outer, Tok("__soupa_temp__a")) # {}
    /\ Len(temps) = PoolSize - 1

(***************************************************************************)
(* The expander goes on as long as a rule applies.                         *)
(***************************************************************************)
SpecFair == Spec /\ WF_vars(Next)

(***************************************************************************)
(* C14: every run reaches the final state that emits the output; no run    *)
(* goes on forever or stops before it.                                     *)
(***************************************************************************)
Terminates ==
    /\ [](~Done => ENABLED Next)
    /\ <>Done

\* The longest run has ended: an input of more than 2 * PoolSize tokens.
TerminatesWitness ==
    /\ Done
    /\ Len(input) > 2 * PoolSize
    /\ out # <<>>

(***************************************************************************)
(* Counting tokens and groups.                                             *)
(***************************************************************************)
\* Paths of all tokens and groups of s, at any depth.
RECURSIVE NodePaths(_)
NodePaths(s) ==
    UNION { { <<i>> } \cup (IF IsGroup(s[i])
                            THEN { <<i>> \o p : p \in NodePaths(s[i].c) }
                            ELSE {})
            : i \in 1..Len(s) }

NodeCount(s) == Cardinality(NodePaths(s))

\* Tokens and groups of the input that are in @init and @body: a statement
\* holds four tokens of its own, and the name in the body stands for `super`.
Consumed == NodeCount(body) + NodeCount(init) - 4 * (Len(init) \div 5)

(***************************************************************************)
(* C15: the first state of a run has one frame of kind None covering the   *)
(* whole input; while frames are left nothing is emitted; the stack gets   *)
(* empty only from a single frame without remaining input, with the whole  *)
(* input consumed, and the next step produces the output from @init and    *)
(* @body; the stack is empty from then on.                                 *)
(***************************************************************************)
StackEmptyWhenComplete ==
    /\ [](Done => stack = <<>> /\ out = << Grp("{}", init \o body) >>)
    /\ []((pc = "run" /\ stack = <<>>) => Consumed = NodeCount(input))
    /\ []((pc = "run" /\ stack # <<>>) =>
             /\ out = <<>>
             /\ body = <<>>
             /\ stack[Len(stack)].paren = "None")
    /\ [][pc = "call" =>
             stack' = << [paren |-> "None", body |-> <<>>, rest |-> input] >>]_vars
    /\ [][(stack # <<>> /\ stack' = <<>>) =>
             (Len(stack) = 1 /\ stack[1].rest = <<>>)]_vars
    /\ [][(pc = "run" /\ stack = <<>>) =>
             (pc' = "done" /\ out' = << Grp("{}", init \o body) >>)]_vars

\* The stack has just become empty after a run with a hoisted super block and
\* a group in the body; the output is still to be produced.
StackEmptyWhenCompleteWitness ==
    /\ pc = "run"
    /\ stack = <<>>
    /\ out = <<>>
    /\ init # <<>>
    /\ \E i \in 1..Len(body) : IsGroup(body[i])
    /\ Consumed = NodeCount(input)

(***************************************************************************)
(* C16 (as stated): the pool of an invocation offers about 700 names, and  *)
(* an input with up to that many marked expressions has every one of them  *)
(* hoisted to its own init statement.                                      *)
(***************************************************************************)
PoolOffersAbout700 ==
    /\ pc \in {"run", "done"} => Len(temps) + (Len(init) \div 5) \in 650..750
    /\ (Done /\ Cardinality(HoistPaths(input)) <= 700) =>
          Len(init) = 5 * Cardinality(HoistPaths(input))

(***************************************************************************)
(* C16 (amended): the pool of an invocation offers 260 names, and an input *)
(* with up to 260 marked expressions (outside the contents of other marked *)
(* expressions) has every one of them hoisted to its own init statement.   *)
(***************************************************************************)
PoolOffers260 ==
    /\ pc \in {"run", "done"} => Len(temps) + (Len(init) \div 5) = 260
    /\ (Done /\ Cardinality(HoistPaths(input)) <= 260) =>
          /\ Len(init) = 5 * Cardinality(HoistPaths(input))
          /\ Cardinality(NamePaths(body)) = Cardinality(HoistPaths(input))
          /\ HoistPaths(body) = {}

\* A finished run on 260 super blocks: 260 init statements, no name left.
PoolOffers260Witness ==
    /\ Done
    /\ Cardinality(HoistPaths(input)) = 260
    /\ Len(init) = 5 * 260
    /\ temps = <<>>
    /\ HoistPaths(body) = {}

(***************************************************************************)
(* What is left to do in a stack st.                                       *)
(***************************************************************************)
\* Number of top-level items in the remaining inputs of all frames.
RestItems(st) ==
    Cardinality(UNION { { <<f, i>> : i \in 1..Len(st[f].rest) } : f \in 1..Len(st) })

\* Number of tokens and groups, at any depth, in the remaining inputs.
RestNodes(st) ==
    Cardinality(UNION { { <<f>> \o p : p \in NodePaths(st[f].rest) } : f \in 1..Len(st) })

Measure(st) == 2 * RestNodes(st) + Len(st)

\* t is s without its first k items.
DropsFront(s, t, k) == Len(s) >= k /\ t = SubSeq(s, k + 1, Len(s))

(***************************************************************************)
(* C17 (as stated): across any step taken while the stack is non-empty,    *)
(* the total number of top-level items in the remaining inputs of all      *)
(* frames does not stay the same.                                          *)
(***************************************************************************)
EveryStepConsumesAnItem ==
    [][stack # <<>> => RestItems(stack') # RestItems(stack)]_vars

(***************************************************************************)
(* C17 (amended): a step taken while the stack is non-empty removes one    *)
(* token, one group or one super block from the front of the remaining     *)
(* input of the top frame, or, when that is empty, removes the top frame   *)
(* and consumes nothing; twice the number of tokens and groups (at any     *)
(* depth) of all remaining inputs plus the number of frames gets strictly  *)
(* smaller at every such step.                                             *)
(***************************************************************************)
EveryStepMakesProgress ==
    [][stack # <<>> =>
          /\ Measure(stack') < Measure(stack)
          /\ stack[1].rest # <<>> =>
                \/ /\ Len(stack') = Len(stack)
                   /\ \/ DropsFront(stack[1].rest, stack'[1].rest, 1)
                      \/ DropsFront(stack[1].rest, stack'[1].rest, 2)
                \/ /\ Len(stack') = Len(stack) + 1
                   /\ DropsFront(stack[1].rest, stack'[2].rest, 1)
                   /\ stack'[1].rest = stack[1].rest[1].c
          /\ stack[1].rest = <<>> =>
                /\ Len(stack') = Len(stack) - 1
                /\ RestItems(stack') = RestItems(stack)
      ]_vars

\* The top frame is finished while the frame below still has input: the next
\* step merges the two and takes nothing from any remaining input.
EveryStepMakesProgressWitness ==
    /\ pc = "run"
    /\ Len(stack) >= 2
    /\ stack[1].rest = <<>>
    /\ stack[1].body # <<>>
    /\ stack[2].rest # <<>>

(***************************************************************************)
(* C18: frame effect.  Across a step taken while the stack is non-empty,   *)
(* the pool and the init list change only when the remaining input of the  *)
(* top frame starts with a super block and the pool is not empty, and then *)
(* the head of the pool is removed and one init statement is appended;     *)
(* the push, token and merge steps leave both unchanged.  No frame below   *)
(* the top changes, except that a merge changes the body, and only the     *)
(* body, of the frame directly below the top.                              *)
(***************************************************************************)
HoistingStep == StartsWithSuperBlock(stack[1].rest) /\ temps # <<>>

FrameEffect ==
    [][(pc = "run" /\ stack # <<>>) =>
          /\ HoistingStep =>
                /\ temps' = Tail(temps)
                /\ init' = init \o << Tok("let"), Head(temps), Tok("="),
                                      Grp("{}", stack[1].rest[2].c), Tok(";") >>
                /\ Len(stack') = Len(stack)
          /\ ~HoistingStep => (temps' = temps /\ init' = init)
          /\ Len(stack') >= Len(stack) =>
                /\ Len(stack') <= Len(stack) + 1
                /\ \A i \in 2..Len(stack) :
                      stack'[i + Len(stack') - Len(stack)] = stack[i]
          /\ Len(stack') < Len(stack) =>
                /\ Len(stack') = Len(stack) - 1
                /\ \A i \in 3..Len(stack) : stack'[i - 1] = stack[i]
                /\ Len(stack) >= 2 =>
                      /\ stack'[1].paren = stack[2].paren
                      /\ stack'[1].rest = stack[2].rest
                      /\ stack'[1].body # stack[2].body
      ]_vars

\* A merge is about to happen above two frames, after a hoist: the frame
\* directly below the top gets a new body, the one below that stays.
FrameEffectWitness ==
    /\ pc = "run"
    /\ Len(stack) >= 3
    /\ stack[1].rest = <<>>
    /\ init # <<>>
    /\ temps # <<>>

(***************************************************************************)
(* C19: push/pop discipline.  A group at the front of the top frame's      *)
(* remaining input that is not the block of a marker is pushed as a frame  *)
(* of the group's kind with an empty body and the group's contents as      *)
(* remaining input, over the frame it was taken from; while a frame is     *)
(* not on top it does not change; the top frame is popped only when its    *)
(* remaining input is empty, and then its body, wrapped in its own kind,   *)
(* is appended to the body of the frame below, whose remaining input is    *)
(* still the one it had at the push.                                       *)
(***************************************************************************)
PushPopDiscipline ==
    [][(pc = "run" /\ stack # <<>>) =>
          LET top == stack[1]
              pushes == /\ top.rest # <<>>
                        /\ IsGroup(Head(top.rest))
              pops == top.rest = <<>>
          IN /\ pushes <=> Len(stack') = Len(stack) + 1
             /\ pops <=> Len(stack') = Len(stack) - 1
             /\ pushes =>
                   /\ stack'[1].paren = Head(top.rest).kind
                   /\ stack'[1].body = <<>>
                   /\ stack'[1].rest = Head(top.rest).c
                   /\ stack'[2].paren = top.paren
                   /\ stack'[2].body = top.body
                   /\ stack'[2].rest = Tail(top.rest)
             /\ (pops /\ Len(stack) >= 2) =>
                   /\ top.paren \in Delims
                   /\ stack'[1].paren = stack[2].paren
                   /\ stack'[1].body =
                         stack[2].body \o << [kind |-> top.paren, v |-> "", c |-> top.body] >>
                   /\ stack'[1].rest = stack[2].rest
             /\ (pops /\ Len(stack) = 1) =>
                   /\ top.paren = "None"
                   /\ body' = top.body
             /\ \A i \in 2..Len(stack) :
                   Len(stack') - Len(stack) + i >= 2 =>
                      stack'[Len(stack') - Len(stack) + i] = stack[i]
      ]_vars

\* A frame pushed for a [] group is finished, and the frame it was pushed
\* over has emitted something before the push and has input left after it.
PushPopDisciplineWitness ==
    /\ pc = "run"
    /\ Len(stack) >= 2
    /\ stack[1].rest = <<>>
    /\ stack[1].paren = "[]"
    /\ stack[2].body # <<>>
    /\ stack[2].rest # <<>>

(***************************************************************************)
(* C20 (as stated): every invocation is started by the entry rule as one   *)
(* frame of kind None with an empty body and the whole input as remaining  *)
(* input, the full pool, and empty init and body, also when the tokens of  *)
(* the input have the shape of the state record.                           *)
(***************************************************************************)
EntryStartsEveryInput ==
    [][pc = "call" =>
          /\ pc' = "run"
          /\ temps' = InitialTemps
          /\ stack' = << Frame("None", <<>>, input) >>
          /\ init' = <<>>
          /\ body' = <<>>
      ]_vars

\* What does hold: the entry rule starts the inputs no other rule matches,
\* a state record among them when its last comma is missing; and a rule
\* matches the state at hand exactly when one of the rule steps can be taken.
EntryStartsUnmatchedInputs ==
    [][(pc = "call" /\ ~MatchesInternalRule(input)) =>
          /\ pc' = "run"
          /\ temps' = InitialTemps
          /\ stack' = << Frame("None", <<>>, input) >>
          /\ init' = <<>>
          /\ body' = <<>>
      ]_vars

RuleMatchesIffEnabled ==
    pc = "run" => (RuleMatches(stack) <=> NumRulesEnabled >= 1)

\* A state record given by the user has run to its end with the names of the
\* record in the init list.
StateRecordTakenAsState ==
    /\ Done
    /\ IsStateRecord(input)
    /\ init # <<>>
    /\ init[2] = Tok("t")

(***************************************************************************)
(* C21: frame kinds.  The entry rule starts a stack whose only frame has   *)
(* kind None; every step from a stack whose bottom frame has kind None and *)
(* whose other frames have kind {}, () or [] leads to such a stack again;  *)
(* and in such a state exactly one rule before the entry rule matches, the *)
(* entry rule does not apply and none of the three wrapped body rules can  *)
(* be taken.  So this holds in every state reachable from the entry rule.  *)
(***************************************************************************)
FrameKinds(st) ==
    \/ st = <<>>
    \/ /\ st # <<>>
       /\ st[Len(st)].paren = "None"
       /\ \A i \in 1..(Len(st) - 1) : st[i].paren \in Delims

\* The step about to be taken is one of the entry rule.
EntryRuleApplies ==
    \/ pc = "call" /\ ~MatchesInternalRule(input)
    \/ pc = "run" /\ ~RuleMatches(stack)

FrameKindInvariant ==
    /\ [][EntryRuleApplies =>
             /\ pc' = "run"
             /\ Len(stack') = 1
             /\ FrameKinds(stack')]_vars
    /\ [][(pc = "run" /\ FrameKinds(stack)) => FrameKinds(stack')]_vars
    /\ []((pc = "run" /\ FrameKinds(stack)) =>
             /\ RuleMatches(stack)
             /\ NumRulesEnabled = 1
             /\ ~ENABLED Reenter
             /\ ~ENABLED WrappedBodyBrace
             /\ ~ENABLED WrappedBodyParen
             /\ ~ENABLED WrappedBodyBracket)
    /\ []((pc = "run" /\ ~MatchesInternalRule(input)) => FrameKinds(stack))

\* The entry rule has taken a state record no other rule matched (the pool
\* is longer than any the records hold) and the run is some frames deep.
FrameKindInvariantWitness ==
    /\ pc = "run"
    /\ IsStateRecord(input)
    /\ Len(temps) > 2
    /\ Len(stack) >= 3
    /\ FrameKinds(stack)

(***************************************************************************)
(* C22: hoist count.  In every state of a run, the number of names taken   *)
(* from the pool, the number of init statements, and the number of pool    *)
(* names in the bodies of the frames and the final body are the same, and  *)
(* the names bound are the names referenced.  A step that changes one of   *)
(* the three takes one name, appends one init statement binding it and     *)
(* puts it at the end of the body of the top frame.  (The inputs hold no   *)
(* pool name of their own.)                                                *)
(***************************************************************************)
\* Number of pool names in the bodies of the frames of st and in bd.
RefCount(st, bd) ==
    Cardinality(UNION { { <<f>> \o p : p \in NamePaths(st[f].body) } : f \in 1..Len(st) })
    + Cardinality(NamePaths(bd))

\* The pool names that occur in s.
RECURSIVE NamesIn(_)
NamesIn(s) ==
    UNION { IF s[i] \in PoolNames THEN { s[i] }
            ELSE IF IsGroup(s[i]) THEN NamesIn(s[i].c)
            ELSE {}
            : i \in 1..Len(s) }

RefNames(st, bd) == UNION { NamesIn(st[f].body) : f \in 1..Len(st) } \cup NamesIn(bd)

NumRemoved == PoolSize - Len(temps)

NumEntries == Len(init) \div 5

HoistCount ==
    /\ [](pc \in {"run", "done"} =>
             /\ Len(init) % 5 = 0
             /\ NumRemoved = NumEntries
             /\ NumEntries = RefCount(stack, body)
             /\ BoundNames = RefNames(stack, body)
             /\ \A j \in 1..NumEntries : init[5 * j - 4] = Tok("let"))
    /\ [][(pc = "run" /\ \/ temps' # temps
                         \/ init' # init
                         \/ RefCount(stack', body') # RefCount(stack, body)) =>
             /\ temps' = Tail(temps)
             /\ Len(init') = Len(init) + 5
             /\ SubSeq(init', 1, Len(init)) = init
             /\ init'[Len(init) + 2] = Head(temps)
             /\ RefCount(stack', body') = RefCount(stack, body) + 1
             /\ stack'[1].body = Append(stack[1].body, Head(temps))]_vars

\* A name is taken and already wrapped into a group of the body of a frame,
\* and the run goes on.
HoistCountWitness ==
    /\ pc = "run"
    /\ NumEntries >= 1
    /\ stack # <<>>
    /\ \E i \in 1..Len(stack[1].body) :
          /\ IsGroup(stack[1].body[i])
          /\ NamesIn(stack[1].body[i].c) # {}
    /\ stack[1].rest # <<>>

(***************************************************************************)
(* Putting the marked expressions back.                                    *)
(***************************************************************************)
\* Place of each name in the pool.
PoolIndexOf == [t \in PoolNames |-> CHOOSE i \in 1..PoolSize : InitialTemps[i] = t]

\* The contents of the init statement of ini that binds the name t; the
\* k-th name of the pool is bound by the k-th statement or by none.
ContentsOfName(t, ini) ==
    LET k == PoolIndexOf[t]
    IN IF 5 * k <= Len(ini) /\ ini[5 * k - 3] = t /\ ini[5 * k - 1].kind = "{}"
       THEN ini[5 * k - 1].c
       ELSE << NoItem >>

\* s[lo..hi] with every pool name, at any depth, replaced by
\* `super { <contents of its init statement> }`.
RECURSIVE Unhoist(_, _, _, _)
Unhoist(s, lo, hi, ini) ==
    IF lo > hi THEN <<>>
    ELSE IF lo = hi THEN
        IF s[lo] \in PoolNames
        THEN << SuperTok, Grp("{}", ContentsOfName(s[lo], ini)) >>
        ELSE IF IsGroup(s[lo])
        THEN << Grp(s[lo].kind, Unhoist(s[lo].c, 1, Len(s[lo].c), ini)) >>
        ELSE << s[lo] >>
    ELSE LET m == (lo + hi) \div 2
         IN Unhoist(s, lo, m, ini) \o Unhoist(s, m + 1, hi, ini)

\* Frame i of st with the frames above it nested inside: its body, then the
\* frame above wrapped in its bracket kind, then its remaining input.
RECURSIVE Reassembled(_, _)
Reassembled(st, i) ==
    st[i].body
    \o (IF i > 1 THEN << Grp(st[i - 1].paren, Reassembled(st, i - 1)) >> ELSE <<>>)
    \o st[i].rest

Whole(st, bd) == bd \o (IF st = <<>> THEN <<>> ELSE Reassembled(st, Len(st)))

(***************************************************************************)
(* C23: round trip.  For an input that holds no pool name, in every state  *)
(* of the run the stack put together again (each body followed by the      *)
(* frame above it in its brackets and by its remaining input), with every  *)
(* generated name replaced by `super { <contents of its init statement> }`,*)
(* is the input; in particular the body of the finished run is.            *)
(***************************************************************************)
RoundTrip ==
    (NamePaths(input) = {} /\ pc \in {"run", "done"}) =>
        LET w == Whole(stack, body)
        IN /\ Unhoist(w, 1, Len(w), init) = input
           /\ Done => (stack = <<>> /\ out = << Grp("{}", init \o body) >>)

\* A finished run that hoisted, from inside a group, a marked expression
\* whose contents hold a super block of their own.
RoundTripWitness ==
    /\ Done
    /\ body # input
    /\ Len(init) >= 5
    /\ AllMarkerPaths(init[4].c) # {}
    /\ \E i \in 1..Len(body) :
          /\ IsGroup(body[i])
          /\ NamesIn(body[i].c) # {}

\* The run of a long input is half way: names are in the body of the frame
\* and super blocks are still ahead.
RoundTripMidway ==
    /\ pc = "run"
    /\ NumEntries >= 2
    /\ stack # <<>>
    /\ StartsWithSuperBlock(stack[1].rest)

====
